---- MODULE Spec2Model ----
(***************************************************************************)
(* The event classes of core/event.py: MarketEvent, ActionEvent,           *)
(* SignalEvent, OrderEvent and FillEvent.  The state is the set of event   *)
(* objects constructed so far, kept per class in construction order; an    *)
(* object's position in its sequence is its identity (a FillEvent holds    *)
(* the position of the OrderEvent it references).  Prices and amounts are  *)
(* integers counted in cents (100.25 is 10025).                            *)
(***************************************************************************)
EXTENDS Integers, Sequences, FiniteSets, TLC

\* ------------------------------------------------------------------ bounds

\* Number of calls (constructor calls and method calls) in one behaviour.
MaxCalls == 4

\* ------------------------------------------------------- Python values

\* Python's None; a present value x is the one-element tuple <<x>>.
None == << >>

Some(x) == << x >>

\* A keyword argument left out of the call (the parameter's default applies).
Omitted == << >>

\* The value a parameter is bound to: the argument, or the default when the
\* argument is left out.
Bind(arg, default) == IF arg = Omitted THEN default ELSE arg[1]

\* -------------------------------------------------------------- inputs

Symbols == {"GOOG", "AAPL"}

\* The values uuid.uuid4() may return (a random draw).
UUIDs == {"u1", "u2"}

\* SignalEvent calls: the defaults, the limit-order scenario of the spec,
\* limit and stop orders with and without their price, and a call whose
\* enum values and quantity are outside the documented ranges and which
\* carries a limit price without being a limit order.
SignalCalls ==
  { [symbol |-> "GOOG", datetime |-> 1, signal_type |-> "LONG",
     order_type |-> Omitted, limit_price |-> None, stop_loss |-> None,
     profit_target |-> None, stop_price |-> None, quantity |-> Omitted,
     strategy_id |-> Omitted],
    [symbol |-> "GOOG", datetime |-> 1, signal_type |-> "LONG",
     order_type |-> Some("LMT"), limit_price |-> Some(10050), stop_loss |-> None,
     profit_target |-> None, stop_price |-> None, quantity |-> Some(10000),
     strategy_id |-> Omitted],
    [symbol |-> "AAPL", datetime |-> 2, signal_type |-> "SHORT",
     order_type |-> Some("LMT"), limit_price |-> None, stop_loss |-> Some(9900),
     profit_target |-> None, stop_price |-> None, quantity |-> Some(50),
     strategy_id |-> Some(2)],
    [symbol |-> "AAPL", datetime |-> 2, signal_type |-> "EXIT",
     order_type |-> Some("STP"), limit_price |-> None, stop_loss |-> None,
     profit_target |-> Some(11000), stop_price |-> None, quantity |-> Some(0),
     strategy_id |-> Some(2)],
    [symbol |-> "GOOG", datetime |-> 2, signal_type |-> "SHORT",
     order_type |-> Some("STP"), limit_price |-> None, stop_loss |-> Some(9900),
     profit_target |-> Some(11000), stop_price |-> Some(9950), quantity |-> Some(50),
     strategy_id |-> Omitted],
    [symbol |-> "AAPL", datetime |-> 1, signal_type |-> "HOLD",
     order_type |-> Some("FOK"), limit_price |-> Some(10050), stop_loss |-> None,
     profit_target |-> None, stop_price |-> None, quantity |-> Some(-1),
     strategy_id |-> Omitted] }

\* OrderEvent calls (the signal argument is chosen separately): the sized
\* buy of the spec's scenario, a sell, and a call whose quantity and
\* direction are outside the documented ranges.
OrderCalls ==
  { [quantity |-> 50, direction |-> "BUY"],
    [quantity |-> 20, direction |-> "SELL"],
    [quantity |-> -1, direction |-> "HOLD"] }

\* FillEvent calls (the order argument is chosen separately): commission
\* left out, commission 0, commission 5.
FillCalls ==
  { [timeindex |-> 1, price |-> 10025, symbol |-> "GOOG", exchange |-> "ARCA",
     quantity |-> 50, direction |-> "BUY", commission |-> None],
    [timeindex |-> 2, price |-> 10500, symbol |-> "AAPL", exchange |-> "NYSE",
     quantity |-> 20, direction |-> "SELL", commission |-> Some(0)],
    [timeindex |-> 2, price |-> 10500, symbol |-> "GOOG", exchange |-> "ARCA",
     quantity |-> -1, direction |-> "HOLD", commission |-> Some(5)] }

\* The ledger calls a collaborator attempts on an OrderEvent: the method
\* name with its price and time arguments.
LedgerCalls ==
  { [name |-> "record_entry", price |-> 10025, time |-> 1],
    [name |-> "record_exit", price |-> 10500, time |-> 2] }

\* --------------------------------------------------------------- state

VARIABLES
  markets,   \* the MarketEvent objects constructed, in order
  actions,   \* the ActionEvent objects
  signals,   \* the SignalEvent objects
  orders,    \* the OrderEvent objects
  fills,     \* the FillEvent objects; fills[f].order is a position in orders
  lastOp,    \* the last call made: its name, arguments, result and exception
  ncalls     \* the number of calls made so far

vars == << markets, actions, signals, orders, fills, lastOp, ncalls >>

NoOp == [op |-> "none", args |-> << >>, obj |-> 0, err |-> "none", out |-> << >>]

\* One more call is made.
Call ==
  /\ ncalls < MaxCalls
  /\ ncalls' = ncalls + 1

\* -------------------------------------------------------- constructors

\* MarketEvent.__init__
MarketEvent == [type |-> "MARKET"]

\* ActionEvent.__init__
ActionEvent(symbol, action_type) ==
  [type |-> "ACTION", symbol |-> symbol, action_type |-> action_type]

\* SignalEvent.__init__; the three defaulted parameters that are not None
\* by default are bound first.
SignalEvent(symbol, datetime, signal_type, order_type, limit_price, stop_loss, profit_target, stop_price, quantity, strategy_id) ==
  [type          |-> "SIGNAL",
   strategy_id   |-> Bind(strategy_id, 1),
   symbol        |-> symbol,
   datetime      |-> datetime,
   signal_type   |-> signal_type,
   quantity      |-> Bind(quantity, 10000),
   stop_loss     |-> stop_loss,
   profit_target |-> profit_target,
   limit_price   |-> limit_price,
   stop_price    |-> stop_price,
   order_type    |-> Bind(order_type, "MKT")]

\* OrderEvent.__init__ with a copy-and-paste slip: stop_price is read from
\* the signal's limit_price.
OrderEvent_StopFromLimit(signal, quantity, direction, id) ==
  [type          |-> "ORDER",
   order_id      |-> id,
   direction     |-> direction,
   quantity      |-> quantity,
   symbol        |-> signal.symbol,
   order_type    |-> signal.order_type,
   stop_loss     |-> signal.stop_loss,
   profit_target |-> signal.profit_target,
   limit_price   |-> signal.limit_price,
   stop_price    |-> signal.limit_price,
   entry_price   |-> None,
   exit_price    |-> None,
   entry_time    |-> None,
   exit_time     |-> None,
   profit        |-> None]

\* OrderEvent.__init__ taking the quantity the signal suggests instead of
\* the quantity argument.
OrderEvent_SignalQuantity(signal, quantity, direction, id) ==
  [type          |-> "ORDER",
   order_id      |-> id,
   direction     |-> direction,
   quantity      |-> signal.quantity,
   symbol        |-> signal.symbol,
   order_type    |-> signal.order_type,
   stop_loss     |-> signal.stop_loss,
   profit_target |-> signal.profit_target,
   limit_price   |-> signal.limit_price,
   stop_price    |-> signal.stop_price,
   entry_price   |-> None,
   exit_price    |-> None,
   entry_time    |-> None,
   exit_time     |-> None,
   profit        |-> None]

\* OrderEvent.__init__; id is the value uuid.uuid4() returned.
OrderEvent(signal, quantity, direction, id) ==
  [type          |-> "ORDER",
   order_id      |-> id,
   direction     |-> direction,
   quantity      |-> quantity,
   symbol        |-> signal.symbol,
   order_type    |-> signal.order_type,
   stop_loss     |-> signal.stop_loss,
   profit_target |-> signal.profit_target,
   limit_price   |-> signal.limit_price,
   stop_price    |-> signal.stop_price,
   entry_price   |-> None,
   exit_price    |-> None,
   entry_time    |-> None,
   exit_time     |-> None,
   profit        |-> None]

\* calculate_commission charging a brokerage minimum fee of 1.30 instead of
\* zero.
calculate_commission_MinFee(self) == 130

\* FillEvent.calculate_commission
calculate_commission(self) == 0

\* FillEvent.__init__; order is the position of the referenced OrderEvent,
\* id the value uuid.uuid4() returned.
FillEvent(order, timeindex, price, symbol, exchange, quantity, direction, commission, id) ==
  LET self == [type      |-> "FILL",
               fill_id   |-> id,
               order     |-> order,
               timeindex |-> timeindex,
               price     |-> price,
               symbol    |-> symbol,
               exchange  |-> exchange,
               quantity  |-> quantity,
               direction |-> direction]
  IN  [f \in DOMAIN self \cup {"commission"} |->
         IF f = "commission"
           THEN IF commission = None THEN calculate_commission(self)
                                     ELSE commission[1]
           ELSE self[f]]

\* The attributes class OrderEvent defines besides __init__.
OrderEventMethods == {"print_order"}

\* --------------------------------------------------------------- actions

Init ==
  /\ markets = << >>
  /\ actions = << >>
  /\ signals = << >>
  /\ orders = << >>
  /\ fills = << >>
  /\ lastOp = NoOp
  /\ ncalls = 0

\* MarketEvent() is called.
ConstructMarket ==
  /\ Call
  /\ markets' = Append(markets, MarketEvent)
  /\ lastOp' = [op |-> "MarketEvent", args |-> << >>, obj |-> Len(markets) + 1,
                err |-> "none", out |-> << >>]
  /\ UNCHANGED << actions, signals, orders, fills >>

\* ActionEvent(symbol, action_type) is called.
ConstructAction(symbol, action_type) ==
  /\ Call
  /\ actions' = Append(actions, ActionEvent(symbol, action_type))
  /\ lastOp' = [op |-> "ActionEvent",
                args |-> [symbol |-> symbol, action_type |-> action_type],
                obj |-> Len(actions) + 1, err |-> "none", out |-> << >>]
  /\ UNCHANGED << markets, signals, orders, fills >>

\* SignalEvent(...) is called with the arguments a.
ConstructSignal(a) ==
  /\ Call
  /\ signals' = Append(signals,
        SignalEvent(a.symbol, a.datetime, a.signal_type, a.order_type,
                    a.limit_price, a.stop_loss, a.profit_target, a.stop_price,
                    a.quantity, a.strategy_id))
  /\ lastOp' = [op |-> "SignalEvent", args |-> a, obj |-> Len(signals) + 1,
                err |-> "none", out |-> << >>]
  /\ UNCHANGED << markets, actions, orders, fills >>

\* OrderEvent(signal, quantity, direction) is called with the SignalEvent at
\* position s.
ConstructOrder(s, a, id) ==
  /\ Call
  /\ s \in DOMAIN signals
  /\ orders' = Append(orders, OrderEvent(signals[s], a.quantity, a.direction, id))
  /\ lastOp' = [op |-> "OrderEvent",
                args |-> [signal |-> s, quantity |-> a.quantity,
                          direction |-> a.direction],
                obj |-> Len(orders) + 1, err |-> "none", out |-> << >>]
  /\ UNCHANGED << markets, actions, signals, fills >>

\* The FillEvent constructor also overwriting the referenced order's
\* quantity with the filled quantity.
ConstructFill_SyncQuantity(o, a, id) ==
  /\ Call
  /\ o \in DOMAIN orders
  /\ fills' = Append(fills,
        FillEvent(o, a.timeindex, a.price, a.symbol, a.exchange, a.quantity,
                  a.direction, a.commission, id))
  /\ orders' = [orders EXCEPT ![o].quantity = a.quantity]
  /\ lastOp' = [op |-> "FillEvent", args |-> [order |-> o, call |-> a],
                obj |-> Len(fills) + 1, err |-> "none", out |-> << >>]
  /\ UNCHANGED << markets, actions, signals >>

\* The FillEvent constructor also recording the fill as the referenced
\* order's entry.
ConstructFill_RecordsEntry(o, a, id) ==
  /\ Call
  /\ o \in DOMAIN orders
  /\ fills' = Append(fills,
        FillEvent(o, a.timeindex, a.price, a.symbol, a.exchange, a.quantity,
                  a.direction, a.commission, id))
  /\ orders' = [orders EXCEPT ![o].entry_price = Some(a.price),
                              ![o].entry_time = Some(a.timeindex)]
  /\ lastOp' = [op |-> "FillEvent", args |-> [order |-> o, call |-> a],
                obj |-> Len(fills) + 1, err |-> "none", out |-> << >>]
  /\ UNCHANGED << markets, actions, signals >>

\* FillEvent(order, ...) called with the OrderEvent at position o.
ConstructFill(o, a, id) ==
  /\ Call
  /\ o \in DOMAIN orders
  /\ fills' = Append(fills,
        FillEvent(o, a.timeindex, a.price, a.symbol, a.exchange, a.quantity,
                  a.direction, a.commission, id))
  /\ lastOp' = [op |-> "FillEvent", args |-> [order |-> o, call |-> a],
                obj |-> Len(fills) + 1, err |-> "none", out |-> << >>]
  /\ UNCHANGED << markets, actions, signals, orders >>

\* OrderEvent.print_order: writes one line, changes no object.
print_order(o) ==
  /\ Call
  /\ o \in DOMAIN orders
  /\ lastOp' = [op |-> "print_order", args |-> << >>, obj |-> o, err |-> "none",
                out |-> << orders[o].symbol, orders[o].order_type,
                           orders[o].quantity, orders[o].direction >>]
  /\ UNCHANGED << markets, actions, signals, orders, fills >>

\* A call order.<name>(price, time) of a method class OrderEvent does not
\* define: the attribute lookup raises AttributeError before anything runs.
CallUndefined(o, name, price, time) ==
  /\ Call
  /\ o \in DOMAIN orders
  /\ name \notin OrderEventMethods
  /\ lastOp' = [op |-> name, args |-> [price |-> price, time |-> time],
                obj |-> o, err |-> "AttributeError", out |-> << >>]
  /\ UNCHANGED << markets, actions, signals, orders, fills >>

Next ==
  \/ ConstructMarket
  \/ \E symbol \in Symbols : ConstructAction(symbol, "CLOSE_ALL")
  \/ \E a \in SignalCalls : ConstructSignal(a)
  \/ \E s \in DOMAIN signals, a \in OrderCalls, id \in UUIDs :
        ConstructOrder(s, a, id)
  \/ \E o \in DOMAIN orders, a \in FillCalls, id \in UUIDs : ConstructFill(o, a, id)
  \/ \E o \in DOMAIN orders : print_order(o)
  \/ \E o \in DOMAIN orders, c \in LedgerCalls :
        CallUndefined(o, c.name, c.price, c.time)

Spec == Init /\ [][Next]_vars

\* -------------------------------------------------------------- properties

Present(x) == x # None

\* The fields OrderEvent.__init__ copies from the signal.
SignalCopied ==
  {"symbol", "order_type", "stop_loss", "profit_target", "limit_price", "stop_price"}

\* The fields of an OrderEvent that describe the order itself.
IntentFields == SignalCopied \cup {"order_id", "direction", "quantity"}

\* The fields of an OrderEvent that record its outcome.
LifecycleFields == {"entry_price", "exit_price", "entry_time", "exit_time", "profit"}

\* limit_price is present exactly for LMT, stop_price exactly for STP.
PricesMatchType(e) ==
  /\ Present(e.limit_price) <=> e.order_type = "LMT"
  /\ Present(e.stop_price) <=> e.order_type = "STP"

\* C1: constructing a SignalEvent with order_type LMT and no limit_price, or
\* STP and no stop_price, fails with ValidationError, so every SignalEvent
\* and OrderEvent that exists has limit_price present iff its order_type is
\* LMT and stop_price present iff its order_type is STP.
C1_PricesEnforced ==
  /\ \A i \in DOMAIN signals : PricesMatchType(signals[i])
  /\ \A i \in DOMAIN orders : PricesMatchType(orders[i])
  /\ ( /\ lastOp.op = "SignalEvent"
       /\ \/ lastOp.args.order_type = Some("LMT") /\ lastOp.args.limit_price = None
          \/ lastOp.args.order_type = Some("STP") /\ lastOp.args.stop_price = None )
     => lastOp.err = "ValidationError"

\* C2: a record_entry after entry was recorded fails with AlreadySetError (a
\* record_entry fails in no other way), a record_exit while entry is not
\* recorded fails with InvalidStateError, and exit_price/exit_time being set
\* implies entry_price/entry_time are set.
C2_LedgerContract ==
  /\ (lastOp.op = "record_entry" /\ lastOp.err # "none")
       => lastOp.err = "AlreadySetError"
  /\ (lastOp.op = "record_entry" /\ lastOp.err = "none")
       => /\ orders[lastOp.obj].entry_price = Some(lastOp.args.price)
          /\ orders[lastOp.obj].entry_time = Some(lastOp.args.time)
  /\ (lastOp.op = "record_exit" /\ orders[lastOp.obj].entry_price = None)
       => lastOp.err = "InvalidStateError"
  /\ \A i \in DOMAIN orders :
       (Present(orders[i].exit_price) \/ Present(orders[i].exit_time))
         => (Present(orders[i].entry_price) /\ Present(orders[i].entry_time))

\* C3: immediately after OrderEvent(s, quantity, direction) the new order's
\* symbol, order_type, stop_loss, profit_target, limit_price and stop_price
\* equal those of s, and its five lifecycle fields are absent.
C3_OrderCopiesSignal ==
  lastOp.op = "OrderEvent" =>
    /\ \A f \in SignalCopied :
         orders[lastOp.obj][f] = signals[lastOp.args.signal][f]
    /\ \A f \in LifecycleFields : orders[lastOp.obj][f] = None

\* C3 witness: the order of the spec's scenario has just been built from the
\* limit signal (limit_price 100.50) with quantity 50.
C3_Witness ==
  /\ lastOp.op = "OrderEvent"
  /\ signals[lastOp.args.signal].order_type = "LMT"
  /\ signals[lastOp.args.signal].limit_price = Some(10050)
  /\ orders[lastOp.obj].limit_price = Some(10050)
  /\ orders[lastOp.obj].quantity = 50
  /\ orders[lastOp.obj].entry_price = None

\* C4: no step changes an existing OrderEvent's order_id, symbol,
\* order_type, direction, quantity, stop_loss, profit_target, limit_price
\* or stop_price (and no step removes an order); only the lifecycle fields
\* are left free to differ between two states.
C4_IntentFrozen ==
  [][\A i \in DOMAIN orders :
       /\ i \in DOMAIN orders'
       /\ \A f \in IntentFields : orders'[i][f] = orders[i][f]]_vars

\* C4 witness: an order exists, a fill referencing it was constructed, and a
\* ledger call on it has just been attempted.
C4_Witness ==
  /\ Len(orders) >= 1
  /\ \E f \in DOMAIN fills : fills[f].order = 1
  /\ lastOp.op = "record_exit"
  /\ lastOp.obj = 1

\* The commission a FillEvent call is to store: 0 when the argument is left
\* out, the argument otherwise.
ExpectedCommission(commission) == IF commission = None THEN 0 ELSE commission[1]

C5_Resolved ==
  lastOp.op = "FillEvent" =>
    fills[lastOp.obj].commission = ExpectedCommission(lastOp.args.call.commission)

C5_Frozen ==
  \A f \in DOMAIN fills :
    f \in DOMAIN fills' /\ fills'[f].commission = fills[f].commission

C7_Validated ==
  /\ \A i \in DOMAIN signals :
       /\ signals[i].quantity >= 0
       /\ signals[i].signal_type \in {"LONG", "SHORT", "EXIT"}
       /\ signals[i].order_type \in {"MKT", "LMT", "STP"}
  /\ \A i \in DOMAIN orders :
       /\ orders[i].quantity >= 0
       /\ orders[i].direction \in {"BUY", "SELL"}
       /\ orders[i].order_type \in {"MKT", "LMT", "STP"}
  /\ \A i \in DOMAIN fills :
       /\ fills[i].quantity >= 0
       /\ fills[i].direction \in {"BUY", "SELL"}

Sign(direction) == IF direction = "BUY" THEN 1 ELSE -1

C8_AbsentUntilBoth ==
  \A i \in DOMAIN orders :
    (orders[i].entry_price = None \/ orders[i].exit_price = None)
      => orders[i].profit = None

C8_SetOnExit ==
  ( /\ lastOp.op = "record_entry"
    /\ lastOp'.op = "record_exit"
    /\ lastOp'.obj = lastOp.obj
    /\ ncalls' = ncalls + 1
    /\ orders[lastOp.obj].direction \in {"BUY", "SELL"} )
  => orders'[lastOp.obj].profit =
       Some((lastOp'.args.price - lastOp.args.price)
              * orders[lastOp.obj].quantity * Sign(orders[lastOp.obj].direction))

\* C8: profit is absent while entry or exit is not recorded, and
\* record_entry(pe, t1) followed by record_exit(px, t2) on an order leaves
\* its profit at (px - pe) * quantity * sign(direction); quantity 50, BUY,
\* entry 100.25, exit 105.00 gives 237.50.
C8_Profit == []C8_AbsentUntilBoth /\ [][C8_SetOnExit]_vars

\* The SignalEvent a call with the arguments a is to produce: every field
\* the argument, with order_type MKT, quantity 10000 and strategy_id 1 for
\* the arguments left out.
ExpectedSignal(a) ==
  [type          |-> "SIGNAL",
   symbol        |-> a.symbol,
   datetime      |-> a.datetime,
   signal_type   |-> a.signal_type,
   order_type    |-> IF a.order_type = Omitted THEN "MKT" ELSE a.order_type[1],
   limit_price   |-> a.limit_price,
   stop_loss     |-> a.stop_loss,
   profit_target |-> a.profit_target,
   stop_price    |-> a.stop_price,
   quantity      |-> IF a.quantity = Omitted THEN 10000 ELSE a.quantity[1],
   strategy_id   |-> IF a.strategy_id = Omitted THEN 1 ELSE a.strategy_id[1]]

\* C9: every event carries the discriminant of its variant in every state,
\* and immediately after a constructor call each stored field equals the
\* corresponding argument: an OrderEvent's quantity and direction are the
\* arguments (not the signal's quantity), and a SignalEvent built with the
\* defaults has order_type MKT, quantity 10000, strategy_id 1.
C9_FieldsAreInputs ==
  /\ \A i \in DOMAIN markets : markets[i].type = "MARKET"
  /\ \A i \in DOMAIN actions : actions[i].type = "ACTION"
  /\ \A i \in DOMAIN signals : signals[i].type = "SIGNAL"
  /\ \A i \in DOMAIN orders : orders[i].type = "ORDER"
  /\ \A i \in DOMAIN fills : fills[i].type = "FILL"
  /\ lastOp.op = "MarketEvent" => DOMAIN markets[lastOp.obj] = {"type"}
  /\ lastOp.op = "ActionEvent" =>
       /\ actions[lastOp.obj].symbol = lastOp.args.symbol
       /\ actions[lastOp.obj].action_type = lastOp.args.action_type
  /\ lastOp.op = "SignalEvent" => signals[lastOp.obj] = ExpectedSignal(lastOp.args)
  /\ lastOp.op = "OrderEvent" =>
       /\ orders[lastOp.obj].quantity = lastOp.args.quantity
       /\ orders[lastOp.obj].direction = lastOp.args.direction
  /\ lastOp.op = "FillEvent" =>
       /\ fills[lastOp.obj].order = lastOp.args.order
       /\ \A f \in {"timeindex", "price", "symbol", "exchange", "quantity",
                    "direction"} :
            fills[lastOp.obj][f] = lastOp.args.call[f]

\* C9 witness: a SignalEvent built with the defaults exists, an OrderEvent
\* whose quantity differs from every signal's quantity has been built, and
\* a FillEvent and a MarketEvent have been constructed after it.
C9_Witness ==
  /\ Len(signals) = 1
  /\ signals[1].order_type = "MKT"
  /\ signals[1].quantity = 10000
  /\ signals[1].strategy_id = 1
  /\ \A f \in {"limit_price", "stop_price", "stop_loss", "profit_target"} :
       signals[1][f] = None
  /\ Len(orders) = 1
  /\ orders[1].quantity = 50
  /\ orders[1].direction = "BUY"
  /\ Len(fills) = 1
  /\ lastOp.op = "MarketEvent"

C10_OrderUntouched ==
  (lastOp'.op = "FillEvent" /\ ncalls' = ncalls + 1) => orders' = orders

C10_ReferenceKept ==
  \A f \in DOMAIN fills : f \in DOMAIN fills' /\ fills'[f].order = fills[f].order

C10_ArgumentsStored ==
  /\ \A f \in DOMAIN fills : fills[f].order \in DOMAIN orders
  /\ lastOp.op = "FillEvent" =>
       /\ fills[lastOp.obj].order = lastOp.args.order
       /\ fills[lastOp.obj].symbol = lastOp.args.call.symbol
       /\ fills[lastOp.obj].quantity = lastOp.args.call.quantity
       /\ fills[lastOp.obj].direction = lastOp.args.call.direction

\* C10: constructing a FillEvent leaves every field of every OrderEvent
\* unchanged; the fill's symbol, quantity and direction are the arguments,
\* whatever the order holds; and a fill's order is the order it was given,
\* an existing OrderEvent, in every later state.
C10_FillFrame ==
  /\ []C10_ArgumentsStored
  /\ [][C10_OrderUntouched /\ C10_ReferenceKept]_vars

\* C10 witness: two fills reference the same order, the second just built
\* with a symbol, quantity and direction that differ from the order's, and
\* the order's lifecycle fields are still absent.
C10_Witness ==
  /\ Len(fills) = 2
  /\ fills[1].order = fills[2].order
  /\ lastOp.op = "FillEvent"
  /\ fills[2].symbol # orders[fills[2].order].symbol
  /\ fills[2].quantity # orders[fills[2].order].quantity
  /\ fills[2].direction # orders[fills[2].order].direction
  /\ \A f \in LifecycleFields : orders[fills[2].order][f] = None

====
